---- MODULE Spec2Model ----
(***************************************************************************)
(* The staking contract of src/src/lib.rs (Contract, StakeInfo) as a state *)
(* machine.  Every public method is one atomic action (NEAR runs a method  *)
(* call to completion; a panic discards the call's writes and promises).   *)
(* A call that fails an assertion of the platform (assert_one_yocto,       *)
(* #[private]) aborts before it reads the state: it is no step at all, and *)
(* the assertion is the guard of the action.                               *)
(*                                                                         *)
(* Numbers.  TLC's integers are 32 bits wide, the contract's are u128 and  *)
(* the rate constants are of the order of 10^24, so the model carries      *)
(*   - apr in units of POINT_ONE_TOKEN (10^23): every apr the code can     *)
(*     form is DEFAULT_APR plus or minus a multiple of POINT_ONE_TOKEN;    *)
(*   - timestamps in clock ticks of SecondsPerYear / TicksPerYear seconds  *)
(*     (the model's clock only shows multiples of a tick);                 *)
(*   - a u128 value v by the integer r congruent to v modulo 2^128 of      *)
(*     small magnitude: r >= 0 stands for r, r < 0 stands for 2^128 + r    *)
(*     (what a wrapped subtraction leaves).                                *)
(* The quotient of pending_reward is unchanged by the first two scalings:  *)
(* numerator and divisor are both divided by (tick seconds) * 10^23.       *)
(***************************************************************************)
EXTENDS Integers, Sequences, FiniteSets, TLC

\* ---------------------------------------------------------------- bounds
MaxTime == 2          \* the clock runs from tick 0 to this tick
MaxPromises == 1      \* outbound promises in flight at once
MaxTotalUnits == 4    \* |total_staked| the model lets the ledger reach,
                      \* in stake units
StakeUnit == 50       \* the call arguments are multiples of this amount
TicksPerYear == 5     \* clock ticks in one year of 31,536,000 seconds

Accounts == {"alice", "bob"}
Self == "stake.contract"             \* env::current_account_id()
Signers == Accounts                  \* env::signer_account_id()
Callers == Accounts \cup {Self}      \* env::predecessor_account_id()
StakeAmounts == {0, 2 * StakeUnit}   \* _stake_amount arguments
UnstakeAmounts == {0, 2 * StakeUnit, 3 * StakeUnit}   \* _amount arguments
Deposits == {0, 1}                   \* attached yoctoNEAR
Votes == 1..6                        \* _learner_vote arguments (6: invalid)

\* ------------------------------------------------------ program constants
POINT_ONE_TOKEN == 1                 \* 10^23, the unit apr is carried in
ONE_TOKEN == 10                      \* 10^24
DEFAULT_APR == 50                    \* 5 * 10^24
U8Modulus == 256                     \* votes: u8

VARIABLES
    overflow_checks,  \* build profile: TRUE, arithmetic overflow panics;
                      \* FALSE, it wraps (rustc's release default)
    now,              \* Utc::now().timestamp(), in ticks
    stake_info,       \* LookupMap<AccountId, StakeInfo>
    total_stakers,
    total_staked,
    promises,         \* outbound cross-contract calls not yet resolved
    principal,        \* history: per audited account, the amounts of its
                      \* successful stake_token and unstake_token calls
    last              \* the most recent event: the call and its outcome

vars == <<overflow_checks, now, stake_info, total_stakers, total_staked,
          promises, principal, last>>

\* ------------------------------------------------------------ u128 / u8
\* x < y as u128 values, on the representation described above.
U128Lt(x, y) == IF (x < 0) = (y < 0) THEN x < y ELSE y < 0

\* x - y leaves the u128 range.
SubOverflows(x, y) == U128Lt(x, y)

\* x + y leaves the u128 range.
AddOverflows(x, y) ==
    \/ x < 0 /\ y < 0
    \/ (x < 0) # (y < 0) /\ x + y >= 0

\* The wrapped results (modulo 2^128) on the representation: plain sums.
WrappingAdd(x, y) == x + y
WrappingSub(x, y) == x - y

\* votes: u8
U8SubOverflows(x, y) == x < y
U8AddOverflows(x, y) == x + y >= U8Modulus
U8WrappingSub(x, y) == (x - y) % U8Modulus
U8WrappingAdd(x, y) == (x + y) % U8Modulus

\* ------------------------------------------------------------ the store
contains_key(a) == a \in DOMAIN stake_info

insert(a, info) ==
    [x \in DOMAIN stake_info \cup {a} |-> IF x = a THEN info ELSE stake_info[x]]

\* ------------------------------------------------------- pending_reward
\* amount_staked * time_last * apr / (31536000 * ONE_TOKEN * 100), with
\* time_last in ticks and apr in POINT_ONE_TOKEN units (see the header).
\* A faulty variant, without the factor 100 (apr read as a fraction of
\* ONE_TOKEN, not as a percentage): C12 tells it from the code.
RewardDivisor_NoPercent == TicksPerYear * ONE_TOKEN

RewardDivisor == TicksPerYear * ONE_TOKEN * 100

\* floor(k * 2^128 / (31536000 * 10^23)), for 0 <= k < 1000:
\* 2^128 / (31536000 * 10^23) = 107902830.708060141...
U128PerYearUnit(k) == k * 107902830 + (k * 70806) \div 100000

\* floor(w * 2^128 / U), U = (tick seconds) * 10^23 the unit the product is
\* carried in.  2^128 is no multiple of U: a product p (in units of U)
\* has passed w * 2^128 exactly when p > U128Wraps(w).
U128Wraps(w) == U128PerYearUnit(w * TicksPerYear)

\* amount_staked * (time_last as u128) * apr, in units of U.
RewardProduct(info, t) ==
    info.amount_staked * (t - info.time_staked) * info.apr

\* How many times the product passes 2^128 (TLC's integers end below the
\* fourth).
Wraps(p) == Cardinality({w \in 1..3 : p > U128Wraps(w)})

\* The multiplication leaves the u128 range.
MulOverflows(info, t) == Wraps(RewardProduct(info, t)) > 0

\* The quotient as the code computes it when nothing panics: of the
\* product modulo 2^128.  For w >= 1 wraps the wrapped product is
\* (p - w * 2^128 / U) * U, which lies strictly between
\* (p - U128Wraps(w) - 1) * U and (p - U128Wraps(w)) * U, and the divisor
\* is RewardDivisor * U.
accrued(info, t) ==
    LET p == RewardProduct(info, t)
        w == Wraps(p)
    IN IF w = 0 THEN p \div RewardDivisor
       ELSE (p - U128Wraps(w) - 1) \div RewardDivisor

pending_reward(info, t) == WrappingAdd(accrued(info, t), info.reward)

\* An arithmetic step of pending_reward overflows (a panic under overflow
\* checks).
PendingOverflows(info, t) ==
    \/ MulOverflows(info, t)
    \/ AddOverflows(accrued(info, t), info.reward)


\* ----------------------------------------------------------- the events
Call(op, a, arg, res, ret) ==
    [op |-> op, account |-> a, arg |-> arg, result |-> res, ret |-> ret]

Promise(method, to, amount, origin) ==
    [method |-> method, receiver_id |-> to, amount |-> amount,
     origin |-> origin]

WithinTotal(x) ==
    -(MaxTotalUnits * StakeUnit) <= x /\ x <= MaxTotalUnits * StakeUnit

assert_one_yocto(d) == d = 1

\* The history of the audited accounts after a successful stake_token /
\* unstake_token of account a with amount n.
Deposited(a, n) ==
    [x \in DOMAIN principal |->
        IF x = a THEN [principal[x] EXCEPT !.deposited = @ + n]
        ELSE principal[x]]

Withdrawn(a, n) ==
    [x \in DOMAIN principal |->
        IF x = a THEN [principal[x] EXCEPT !.withdrawn = @ + n]
        ELSE principal[x]]

\* The history stays within the model's range.
WithinHistory(a, field, n) ==
    a \in DOMAIN principal
        => principal[a][field] + n <= MaxTotalUnits * StakeUnit

\* ------------------------------------------------------------------ new
Init ==
    /\ overflow_checks \in BOOLEAN
    /\ now = 0
    /\ stake_info = [x \in {} |-> x]
    /\ total_stakers = 0
    /\ total_staked = 0
    /\ promises = <<>>
    /\ principal = [x \in {} |-> x]      \* no account is audited
    /\ last = Call("new", "", 0, "ok", 0)

\* ---------------------------------------------------------- stake_token
NewStakeInfo(n, t) ==
    [time_staked |-> t, amount_staked |-> n, reward |-> 0,
     apr |-> DEFAULT_APR, votes |-> 0]

\* The Some(mut unwrap_info) arm: the fields of the copy get() returned.
\* pending_reward reads the record of the store, not this copy.
StakeLocal(info, n, t) ==
    [info EXCEPT !.time_staked = t,
                 !.amount_staked = WrappingAdd(@, n),
                 !.reward = WrappingAdd(@, pending_reward(info, t))]

\* An arithmetic step of the call overflows (a panic under overflow checks).
StakeOverflows(a, n) ==
    \/ /\ contains_key(a)
       /\ \/ AddOverflows(stake_info[a].amount_staked, n)
          \/ PendingOverflows(stake_info[a], now)
          \/ AddOverflows(stake_info[a].reward,
                          pending_reward(stake_info[a], now))
    \/ AddOverflows(total_staked, n)

StakeResult(a, n) ==
    IF ~(n > 0) THEN "InvalidAmount"
    ELSE IF overflow_checks /\ StakeOverflows(a, n) THEN "Panic"
    ELSE "ok"

\* What the call leaves in the store: the Some arm changes the copy get()
\* returned and drops it (no insert follows), the None arm inserts the new
\* record.
StakeStore(a, n, t) ==
    IF contains_key(a)
    THEN LET unwrap_info == StakeLocal(stake_info[a], n, t) IN stake_info
    ELSE insert(a, NewStakeInfo(n, t))

\* A faulty variant, counting every stake: C9 tells it from the code.
StakersAfterStake_EveryStake(a) == total_stakers + 1

\* A faulty variant, counting no staker at all: C20 tells it from the code.
StakersAfterStake_Never(a) == total_stakers

StakersAfterStake(a) ==
    IF contains_key(a) THEN total_stakers ELSE total_stakers + 1

stake_token(s, d, a, n) ==
    LET res == StakeResult(a, n) IN
    /\ assert_one_yocto(d)
    /\ res = "ok" => /\ Len(promises) < MaxPromises
                     /\ WithinTotal(WrappingAdd(total_staked, n))
                     /\ WithinHistory(a, "deposited", n)
    /\ IF res = "ok"
       THEN /\ stake_info' = StakeStore(a, n, now)
            /\ total_stakers' = StakersAfterStake(a)
            /\ total_staked' = WrappingAdd(total_staked, n)
            \* ft_transfer_call(current_account_id, amount, "spk_stake")
            \* .then(ft_resolve_transfer(signer, current_account_id, amount))
            /\ promises' = Append(promises,
                   Promise("ft_transfer_call", Self, n, "stake_token"))
       ELSE UNCHANGED <<stake_info, total_stakers, total_staked, promises>>
    /\ last' = Call("stake_token", a, n, res, 0)
    /\ principal' = IF res = "ok" THEN Deposited(a, n) ELSE principal
    /\ UNCHANGED <<overflow_checks, now>>

\* -------------------------------------------------------- unstake_token
UnstakeLocal(info, n, t) ==
    [info EXCEPT !.amount_staked = WrappingSub(@, n),
                 !.time_staked = t,
                 !.reward = WrappingAdd(@, pending_reward(info, t))]

UnstakeOverflows(a, n) ==
    \/ SubOverflows(stake_info[a].amount_staked, n)
    \/ PendingOverflows(stake_info[a], now)
    \/ AddOverflows(stake_info[a].reward, pending_reward(stake_info[a], now))
    \/ SubOverflows(total_staked, n)

UnstakeResult(a, n) ==
    IF ~contains_key(a) THEN "NoStake"
    ELSE IF ~U128Lt(0, stake_info[a].amount_staked) THEN "InsufficientStake"
    ELSE IF ~(n > 0) THEN "InvalidAmount"
    ELSE IF overflow_checks /\ UnstakeOverflows(a, n) THEN "Panic"
    ELSE "ok"

\* The copy get() returned is changed and dropped: no insert follows.
UnstakeStore(a, n, t) ==
    LET stake_info_copy == UnstakeLocal(stake_info[a], n, t) IN stake_info

\* A faulty variant, in which the transfer requested at lib.rs 130-132
\* outlives the panic of the subtraction that follows it: C13 tells it from
\* the code.
unstake_token_KeepsTransfer(s, d, a, n) ==
    LET res == UnstakeResult(a, n) IN
    /\ assert_one_yocto(d)
    /\ res \in {"ok", "Panic"} => Len(promises) < MaxPromises
    /\ res = "ok" => /\ WithinTotal(WrappingSub(total_staked, n))
                     /\ WithinHistory(a, "withdrawn", n)
    /\ promises' = IF res \in {"ok", "Panic"}
                   THEN Append(promises,
                               Promise("ft_transfer", s, n, "unstake_token"))
                   ELSE promises
    /\ total_staked' = IF res = "ok" THEN WrappingSub(total_staked, n)
                       ELSE total_staked
    /\ last' = Call("unstake_token", a, n, res, 0)
    /\ principal' = IF res = "ok" THEN Withdrawn(a, n) ELSE principal
    /\ UNCHANGED <<overflow_checks, now, stake_info, total_stakers>>

unstake_token(s, d, a, n) ==
    LET res == UnstakeResult(a, n) IN
    /\ assert_one_yocto(d)
    /\ res = "ok" => /\ Len(promises) < MaxPromises
                     /\ WithinTotal(WrappingSub(total_staked, n))
                     /\ WithinHistory(a, "withdrawn", n)
    /\ IF res = "ok"
       THEN /\ stake_info' = UnstakeStore(a, n, now)
            /\ promises' = Append(promises,
                   Promise("ft_transfer", s, n, "unstake_token"))
            /\ total_staked' = WrappingSub(total_staked, n)
       ELSE UNCHANGED <<stake_info, total_staked, promises>>
    /\ last' = Call("unstake_token", a, n, res, 0)
    /\ principal' = IF res = "ok" THEN Withdrawn(a, n) ELSE principal
    /\ UNCHANGED <<overflow_checks, now, total_stakers>>

\* --------------------------------------------------------- claim_reward
ClaimLocal(info, t) == [info EXCEPT !.time_staked = t, !.reward = 0]

\* A faulty variant, without the reward > 0 check: C10 tells it from the
\* code.
ClaimResult_NoRewardCheck(a) ==
    IF ~contains_key(a) THEN "NoStake" ELSE "ok"

ClaimResult(a) ==
    IF ~contains_key(a) THEN "NoStake"
    ELSE IF overflow_checks /\ PendingOverflows(stake_info[a], now)
    THEN "Panic"
    ELSE IF ~U128Lt(0, pending_reward(stake_info[a], now)) THEN "NoReward"
    ELSE "ok"

\* The copy get() returned is changed and dropped: no insert follows.
ClaimStore(a, t) ==
    LET stake_info_copy == ClaimLocal(stake_info[a], t) IN stake_info

claim_reward(s, d, a) ==
    LET res == ClaimResult(a) IN
    /\ assert_one_yocto(d)
    /\ res = "ok" => Len(promises) < MaxPromises
    /\ IF res = "ok"
       THEN /\ promises' = Append(promises,
                   Promise("ft_transfer", s,
                           pending_reward(stake_info[a], now), "claim_reward"))
            /\ stake_info' = ClaimStore(a, now)
       ELSE UNCHANGED <<stake_info, promises>>
    /\ last' = Call("claim_reward", a, 0, res, 0)
    /\ UNCHANGED principal
    /\ UNCHANGED <<overflow_checks, now, total_stakers, total_staked>>

\* ----------------------------------------- pending_reward (the method)
PendingRewardResult(a) ==
    IF ~contains_key(a) THEN "NoStake"
    ELSE IF overflow_checks /\ PendingOverflows(stake_info[a], now)
    THEN "Panic"
    ELSE "ok"

\* A faulty variant, settling the record as it answers (the accrual is
\* written back with the query's time): C11 tells it from the code.
pending_reward_of_Settles(a) ==
    LET res == PendingRewardResult(a) IN
    /\ last' = Call("pending_reward", a, 0, res,
                    IF res = "ok" THEN pending_reward(stake_info[a], now)
                    ELSE 0)
    /\ stake_info' =
           IF res = "ok"
           THEN insert(a, [stake_info[a] EXCEPT
                              !.reward = pending_reward(stake_info[a], now),
                              !.time_staked = now])
           ELSE stake_info
    /\ UNCHANGED principal
    /\ UNCHANGED <<overflow_checks, now, total_stakers, total_staked,
                   promises>>

pending_reward_of(a) ==
    LET res == PendingRewardResult(a) IN
    /\ last' = Call("pending_reward", a, 0, res,
                    IF res = "ok" THEN pending_reward(stake_info[a], now)
                    ELSE 0)
    /\ UNCHANGED principal
    /\ UNCHANGED <<overflow_checks, now, stake_info, total_stakers,
                   total_staked, promises>>

\* ---------------------------------------------------- get_staked_amount
GetStakedAmountResult(a) == IF ~contains_key(a) THEN "NoStake" ELSE "ok"

get_staked_amount(a) ==
    LET res == GetStakedAmountResult(a) IN
    /\ last' = Call("get_staked_amount", a, 0, res,
                    IF res = "ok" THEN stake_info[a].amount_staked ELSE 0)
    /\ UNCHANGED principal
    /\ UNCHANGED <<overflow_checks, now, stake_info, total_stakers,
                   total_staked, promises>>

\* ----------------------------------------------------------- update_apr
\* The match arms: what a vote subtracts from or adds to apr and votes.
VoteDecrease(v) ==
    IF v = 1 THEN 2 ELSE IF v = 2 THEN 1 ELSE 0

VoteIncrease(v) ==
    IF v = 4 THEN 1 ELSE IF v = 5 THEN 2 ELSE 0

UpdateAprLocal(info, v, t) ==
    [info EXCEPT
        !.reward = pending_reward(info, t),
        !.time_staked = t,
        !.apr = WrappingAdd(WrappingSub(@, POINT_ONE_TOKEN * VoteDecrease(v)),
                            POINT_ONE_TOKEN * VoteIncrease(v)),
        !.votes = U8WrappingAdd(U8WrappingSub(@, VoteDecrease(v)),
                                VoteIncrease(v))]

UpdateAprOverflows(a, v) ==
    \/ PendingOverflows(stake_info[a], now)
    \/ SubOverflows(stake_info[a].apr, POINT_ONE_TOKEN * VoteDecrease(v))
    \/ U8SubOverflows(stake_info[a].votes, VoteDecrease(v))
    \/ AddOverflows(stake_info[a].apr, POINT_ONE_TOKEN * VoteIncrease(v))
    \/ U8AddOverflows(stake_info[a].votes, VoteIncrease(v))

UpdateAprResult(a, v) ==
    IF ~contains_key(a) THEN "NoStake"
    ELSE IF overflow_checks /\ UpdateAprOverflows(a, v) THEN "Panic"
    ELSE IF v \notin 1..5 THEN "InvalidVote"
    ELSE "ok"

\* The copy get() returned is changed and dropped: no insert follows.
UpdateAprStore(a, v, t) ==
    LET stake_info_copy == UpdateAprLocal(stake_info[a], v, t) IN stake_info

update_apr(p, d, a, v) ==
    LET res == UpdateAprResult(a, v) IN
    /\ p = Self                  \* #[private]
    /\ assert_one_yocto(d)
    /\ IF res = "ok"
       THEN stake_info' = UpdateAprStore(a, v, now)
       ELSE UNCHANGED stake_info
    /\ last' = Call("update_apr", a, v, res, 0)
    /\ UNCHANGED principal
    /\ UNCHANGED <<overflow_checks, now, total_stakers, total_staked,
                   promises>>

\* ------------------------------------------------------ the environment
\* The clock advances between calls.
Tick ==
    /\ now < MaxTime
    /\ now' = now + 1
    /\ last' = Call("tick", "", 0, "ok", 0)
    /\ UNCHANGED principal
    /\ UNCHANGED <<overflow_checks, stake_info, total_stakers, total_staked,
                   promises>>

RemoveAt(q, i) == SubSeq(q, 1, i - 1) \o SubSeq(q, i + 1, Len(q))

\* The token contract resolves promise i.  No promise of the contract has
\* a callback into it (ft_transfer has no .then; stake_token's .then calls
\* the token contract), so neither outcome runs any code of the contract.
ResolvePromise(i, ok) ==
    /\ i \in 1..Len(promises)
    /\ promises' = RemoveAt(promises, i)
    /\ last' = Call("resolve", promises[i].receiver_id, promises[i].amount,
                    IF ok THEN "succeeded" ELSE "failed", 0)
    /\ UNCHANGED principal
    /\ UNCHANGED <<overflow_checks, now, stake_info, total_stakers,
                   total_staked>>

Next ==
    \/ \E s \in Signers, d \in Deposits, a \in Accounts, n \in StakeAmounts :
           stake_token(s, d, a, n)
    \/ \E s \in Signers, d \in Deposits, a \in Accounts,
          n \in UnstakeAmounts :
           unstake_token(s, d, a, n)
    \/ \E s \in Signers, d \in Deposits, a \in Accounts :
           claim_reward(s, d, a)
    \/ \E a \in Accounts : pending_reward_of(a)
    \/ \E a \in Accounts : get_staked_amount(a)
    \/ \E p \in Callers, d \in Deposits, a \in Accounts, v \in Votes :
           update_apr(p, d, a, v)
    \/ Tick
    \/ \E i \in 1..MaxPromises : ResolvePromise(i, TRUE)
    \/ \E i \in 1..MaxPromises : ResolvePromise(i, FALSE)

Spec == Init /\ [][Next]_vars

\* ----------------------------------------- pending_reward over one year
\* The reward function on the record a first stake_token(a, n) leaves
\* (lib.rs 82-89), queried at every tick of the year that follows.
RewardAmounts == {1, 19, 20, 2 * StakeUnit, 1000000, 2200000}

RewardInit ==
    /\ overflow_checks \in BOOLEAN
    /\ now = 0
    /\ \E a \in Accounts, n \in RewardAmounts :
           /\ stake_info = [x \in {a} |-> NewStakeInfo(n, 0)]
           /\ total_staked = n
           \* the stake's ft_transfer_call has been resolved
           /\ last = Call("resolve", Self, n, "succeeded", 0)
    /\ total_stakers = 1
    /\ promises = <<>>
    /\ principal = [x \in {} |-> x]

YearTick ==
    /\ now < TicksPerYear
    /\ now' = now + 1
    /\ last' = Call("tick", "", 0, "ok", 0)
    /\ UNCHANGED principal
    /\ UNCHANGED <<overflow_checks, stake_info, total_stakers, total_staked,
                   promises>>

RewardNext ==
    \/ \E a \in Accounts : pending_reward_of(a)
    \/ YearTick

SpecReward == RewardInit /\ [][RewardNext]_vars

\* ------------------------------------------- the flow of the principal
\* The contract with the history of every account's stakes and unstakes
\* kept: the calls that move principal, and the token contract's answers.
PrincipalInit ==
    /\ overflow_checks \in BOOLEAN
    /\ now = 0
    /\ stake_info = [x \in {} |-> x]
    /\ total_stakers = 0
    /\ total_staked = 0
    /\ promises = <<>>
    /\ principal = [x \in Accounts |-> [deposited |-> 0, withdrawn |-> 0]]
    /\ last = Call("new", "", 0, "ok", 0)

PrincipalNext ==
    \/ \E s \in Signers, d \in Deposits, a \in Accounts, n \in StakeAmounts :
           stake_token(s, d, a, n)
    \/ \E s \in Signers, d \in Deposits, a \in Accounts,
          n \in UnstakeAmounts :
           unstake_token(s, d, a, n)
    \/ \E i \in 1..MaxPromises : ResolvePromise(i, TRUE)
    \/ \E i \in 1..MaxPromises : ResolvePromise(i, FALSE)

SpecPrincipal == PrincipalInit /\ [][PrincipalNext]_vars

\* ================================================================ claims
RECURSIVE SumStaked(_)
SumStaked(S) ==
    IF S = {} THEN 0
    ELSE LET a == CHOOSE x \in S : TRUE
         IN stake_info[a].amount_staked + SumStaked(S \ {a})

\* The ledger part of the state, which a failed call must leave alone.
ledger == <<stake_info, total_stakers, total_staked, promises>>

\* C1: in every reachable state total_staked equals the sum of the stored
\* amount_staked over all records of stake_info.
C1_TotalStakedIsSum == total_staked = SumStaked(DOMAIN stake_info)

\* C2: after a successful claim_reward(a) at time t the stored record of a
\* has reward = 0 and time_staked = t, so that a second claim_reward(a) at
\* the same time fails with the no-reward error.
C2_ClaimSettlesRecord ==
    (last.op = "claim_reward" /\ last.result = "ok") =>
        /\ stake_info[last.account].reward = 0
        /\ stake_info[last.account].time_staked = now
        /\ ClaimResult(last.account) = "NoReward"

\* C3: unstake_token(a, n) with n greater than the stored amount_staked of
\* a fails with the insufficient-stake error, requests no transfer and
\* leaves amount_staked and total_staked unchanged.
C3_UnstakeTooMuchFails ==
    [][LET a == last'.account
           n == last'.arg
       IN (/\ last'.op = "unstake_token"
           /\ contains_key(a)
           /\ U128Lt(stake_info[a].amount_staked, n))
          => /\ last'.result = "InsufficientStake"
             /\ promises' = promises
             /\ stake_info' = stake_info
             /\ total_staked' = total_staked]_vars

\* C4: a successful unstake_token(a, n) with 0 < n <= amount_staked(a)
\* lowers the stored amount_staked of a by exactly n and total_staked by
\* exactly n.
C4_UnstakeLowersBoth ==
    [][LET a == last'.account
           n == last'.arg
       IN (/\ last'.op = "unstake_token"
           /\ last'.result = "ok"
           /\ ~U128Lt(stake_info[a].amount_staked, n))
          => /\ stake_info'[a].amount_staked
                    = stake_info[a].amount_staked - n
             /\ total_staked' = total_staked - n]_vars

\* C5: a successful stake_token(a, n) at time t on an account with a record
\* r leaves the stored record with amount_staked = r.amount_staked + n,
\* time_staked = t and reward = pending_reward of r at t.
C5_RestakeSettles ==
    [][LET a == last'.account
           n == last'.arg
       IN (/\ last'.op = "stake_token"
           /\ last'.result = "ok"
           /\ contains_key(a))
          => /\ stake_info'[a].amount_staked
                    = stake_info[a].amount_staked + n
             /\ stake_info'[a].time_staked = now
             /\ stake_info'[a].reward
                    = pending_reward(stake_info[a], now)]_vars

\* C6: when the outbound transfer of an unstake_token resolves as failed,
\* the debited amount is credited back: total_staked and the staked
\* amounts of the records rise again by the amount of the transfer.
C6_FailedTransferCreditedBack ==
    [][\A i \in 1..Len(promises) :
          (/\ ResolvePromise(i, FALSE)
           /\ promises[i].origin = "unstake_token")
          => /\ total_staked' = total_staked + promises[i].amount
             /\ SumStaked(DOMAIN stake_info)' =
                    SumStaked(DOMAIN stake_info) + promises[i].amount]_vars

\* C7: update_apr(a, v) with a decrease vote (v = 1, 2) whose delta exceeds
\* the room left in a's apr or votes fails with the rate-floor error and
\* leaves the stored apr and votes unchanged.
C7_DecreaseBelowFloorFails ==
    [][LET a == last'.account
           v == last'.arg
       IN (/\ last'.op = "update_apr"
           /\ contains_key(a)
           /\ v \in {1, 2}
           /\ \/ stake_info[a].apr < POINT_ONE_TOKEN * VoteDecrease(v)
              \/ stake_info[a].votes < VoteDecrease(v))
          => /\ last'.result = "RateFloorExceeded"
             /\ stake_info' = stake_info]_vars

\* C8: a successful update_apr(a, v) changes the stored apr of a by exactly
\* the vote's delta (-2, -1, 0, +1, +2 units of POINT_ONE_TOKEN for
\* v = 1..5) and the stored votes by the matching amount.
C8_VoteMovesApr ==
    [][LET a == last'.account
           v == last'.arg
       IN (last'.op = "update_apr" /\ last'.result = "ok")
          => /\ stake_info'[a].apr = stake_info[a].apr
                    - POINT_ONE_TOKEN * VoteDecrease(v)
                    + POINT_ONE_TOKEN * VoteIncrease(v)
             /\ stake_info'[a].votes = stake_info[a].votes
                    - VoteDecrease(v) + VoteIncrease(v)]_vars

\* C9: total_stakers never decreases: it rises by exactly 1 on the first
\* successful stake_token of an account and by 0 on every other step
\* (later stakes of the account, unstake_token, claim_reward, update_apr).
C9_StakersCountFirstStakes ==
    [][total_stakers' = total_stakers +
           (IF /\ last'.op = "stake_token"
               /\ last'.result = "ok"
               /\ ~contains_key(last'.account)
            THEN 1 ELSE 0)]_vars

\* C9's case: a second successful stake of the one account that has staked.
C9_Witness ==
    /\ last.op = "stake_token"
    /\ last.result = "ok"
    /\ DOMAIN stake_info = {last.account}
    /\ total_staked = 2 * last.arg
    /\ total_stakers = 1

\* C10: claim_reward(a) fails with the no-stake error when a has no record
\* and with the no-reward error when pending_reward(a) is 0; in both cases
\* it requests no transfer and changes no state.
C10_ClaimFailures ==
    [][LET a == last'.account
       IN last'.op = "claim_reward"
          => /\ ~contains_key(a) => last'.result = "NoStake"
             /\ (contains_key(a) /\ pending_reward(stake_info[a], now) = 0)
                    => last'.result = "NoReward"
             /\ last'.result \in {"NoStake", "NoReward"}
                    => UNCHANGED ledger]_vars

\* C10's case: a claim right after the account's first stake, no time
\* elapsed, refused with the no-reward error.
C10_Witness ==
    /\ last.op = "claim_reward"
    /\ last.result = "NoReward"
    /\ contains_key(last.account)
    /\ stake_info[last.account].time_staked = now
    /\ promises # <<>>

\* C11: pending_reward(a) and get_staked_amount(a) fail with the no-stake
\* error for every account without a record (an account that never staked:
\* no record is ever removed), and for every account they leave the stored
\* state unchanged: every record's fields, total_staked, total_stakers (and
\* the outbound transfers).
C11_ViewsReadOnly ==
    [][last'.op \in {"pending_reward", "get_staked_amount"}
          => /\ ~contains_key(last'.account) => last'.result = "NoStake"
             /\ UNCHANGED ledger]_vars

\* C11's case: a reward query answered for an account whose record has
\* accrued since it was written, the record still as the stake left it.
C11_Witness ==
    /\ last.op = "pending_reward"
    /\ last.result = "ok"
    /\ last.ret > 0
    /\ stake_info[last.account].time_staked < now
    /\ stake_info[last.account].reward = 0
    /\ \E b \in Accounts : ~contains_key(b)

\* C12: a record with amount_staked = 1,000,000, apr = DEFAULT_APR and
\* reward = 0 queried exactly one year (31,536,000 s) after time_staked
\* returns 50,000; in general, while the product stays within u128,
\* pending_reward returns floor(amount_staked * elapsed * apr / D) + reward
\* for the one divisor D, and D makes one year at DEFAULT_APR (5%) yield
\* floor(5% of amount_staked).
C12_YearAtDefaultApr ==
    (last.op = "pending_reward" /\ last.result = "ok") =>
        LET info == stake_info[last.account]
            elapsed == now - info.time_staked
        IN /\ ~MulOverflows(info, now) =>
                  last.ret = (info.amount_staked * elapsed * info.apr)
                                 \div RewardDivisor + info.reward
           /\ (/\ ~MulOverflows(info, now)
               /\ elapsed = TicksPerYear
               /\ info.apr = DEFAULT_APR) =>
                  last.ret = (info.amount_staked * 5) \div 100 + info.reward
           /\ (/\ info.amount_staked = 1000000
               /\ info.apr = DEFAULT_APR
               /\ info.reward = 0
               /\ elapsed = TicksPerYear) => last.ret = 50000

\* C12's case: the query of the 1,000,000 record one year after its stake.
C12_Witness ==
    /\ last.op = "pending_reward"
    /\ last.result = "ok"
    /\ stake_info[last.account].amount_staked = 1000000
    /\ stake_info[last.account].apr = DEFAULT_APR
    /\ now - stake_info[last.account].time_staked = TicksPerYear
    /\ last.ret = 50000

\* The methods of the contract, as the events name them.
Methods ==
    {"stake_token", "unstake_token", "claim_reward", "pending_reward",
     "get_staked_amount", "update_apr"}

\* C13: every operation that fails (zero amount, missing record,
\* insufficient stake, no reward, invalid vote, arithmetic failure) leaves
\* every record, total_staked and total_stakers as they were before the
\* call and requests no outbound transfer.
C13_FailedCallsChangeNothing ==
    [][(last'.op \in Methods /\ last'.result # "ok")
          => /\ last'.result \in {"InvalidAmount", "NoStake",
                                  "InsufficientStake", "NoReward",
                                  "InvalidVote", "Panic"}
             /\ UNCHANGED ledger]_vars

\* C13's case: an unstake_token that panics in its arithmetic (overflow
\* checks on, total_staked below the amount) while the account has a
\* record and an earlier transfer is still in flight.
C13_Witness ==
    /\ last.op = "unstake_token"
    /\ last.result = "Panic"
    /\ contains_key(last.account)
    /\ U128Lt(total_staked, last.arg)
    /\ promises # <<>>

\* C14: for a record with fixed amount_staked, apr and reward,
\* pending_reward is monotonically non-decreasing in the query time: a
\* query answered at a later time never returns less than one answered
\* earlier, across the whole range of amounts and elapsed times.
C14_RewardMonotoneInTime ==
    [][\A a \in DOMAIN stake_info :
          (/\ stake_info' = stake_info
           /\ now <= now'
           /\ PendingRewardResult(a) = "ok"
           /\ PendingRewardResult(a)' = "ok")
          => pending_reward(stake_info[a], now)
                 <= pending_reward(stake_info[a], now')]_vars

\* C15: stake_token issues no outbound transfer request: the outbound
\* transfers pending after the call are those pending before it.
C15_StakeRequestsNoTransfer ==
    [][last'.op = "stake_token" => promises' = promises]_vars

\* C16: the transfer a successful claim_reward(a) requests has recipient a
\* and as amount the full pending_reward(a), whoever signed the call.
C16_ClaimPaysTheAccount ==
    [][LET a == last'.account
       IN (last'.op = "claim_reward" /\ last'.result = "ok")
          => /\ Len(promises') = Len(promises) + 1
             /\ promises'[Len(promises')].receiver_id = a
             /\ promises'[Len(promises')].amount
                    = pending_reward(stake_info[a], now)]_vars

\* C17: when the product amount_staked * elapsed * apr of pending_reward,
\* or an addition to amount_staked or to total_staked in stake_token,
\* leaves the u128 range, the operation fails with the arithmetic-overflow
\* error: it returns no wrapped result and does not abort with a panic.
C17_OverflowIsAnErrorValue ==
    [][LET a == last'.account
           n == last'.arg
       IN /\ (/\ last'.op = "pending_reward"
               /\ contains_key(a)
               /\ MulOverflows(stake_info[a], now))
              => last'.result = "ArithmeticOverflow"
          /\ (/\ last'.op = "stake_token"
               /\ n > 0
               /\ \/ AddOverflows(total_staked, n)
                  \/ /\ contains_key(a)
                     /\ AddOverflows(stake_info[a].amount_staked, n))
              => /\ last'.result = "ArithmeticOverflow"
                 /\ UNCHANGED ledger]_vars

\* C18: the stored time_staked of a record never decreases across
\* stake_token, unstake_token, claim_reward and update_apr calls (the
\* clock never runs backwards), and every successful one of these calls
\* on an account leaves its stored time_staked equal to the time of the
\* call.
C18_TimeStakedFollowsCalls ==
    [][/\ \A a \in DOMAIN stake_info :
              /\ a \in DOMAIN stake_info'
              /\ stake_info'[a].time_staked >= stake_info[a].time_staked
       /\ (/\ last'.op \in {"stake_token", "unstake_token", "claim_reward",
                            "update_apr"}
           /\ last'.result = "ok")
          => stake_info'[last'.account].time_staked = now]_vars

\* C20: in every reachable state total_stakers equals the number of
\* accounts with a record in stake_info, and no operation ever removes a
\* record.
C20_StakersCountRecords ==
    /\ total_stakers = Cardinality(DOMAIN stake_info)
    /\ [][/\ DOMAIN stake_info \subseteq DOMAIN stake_info'
          /\ total_stakers' = Cardinality(DOMAIN stake_info')]_vars

\* C20's case: both accounts have staked and one of them has since
\* unstaked its whole stake: its record is still there and still counted.
C20_Witness ==
    /\ last.op = "unstake_token"
    /\ last.result = "ok"
    /\ last.arg = stake_info[last.account].amount_staked
    /\ DOMAIN stake_info = Accounts
    /\ total_stakers = 2

\* C19: for every account a, the cumulative principal sent out by a's
\* successful unstake_token calls never exceeds the cumulative amount a
\* deposited through successful stake_token calls.
C19_NeverOutMoreThanIn ==
    \A a \in DOMAIN principal :
        principal[a].withdrawn <= principal[a].deposited

====
